---- MODULE Spec2Model ----
(***************************************************************************)
(* Model of the NiFi process-group import/upgrade tool: do_execute,        *)
(* traverse_process_groups, import_process_group and update_process_group  *)
(* of action.py, with the NifiClient / RegistryClient calls they make.     *)
(* Every API call the program issues is appended to `calls`; the server's  *)
(* answers are the inputs of the model.                                    *)
(***************************************************************************)
EXTENDS Integers, Sequences, FiniteSets, TLC

\* ------------------------------------------------------------------ bounds
MaxNodes == 4        \* process groups in the tree of the tree-search runs
MaxGroups == 2       \* process groups in the tree of the full runs
MaxList == 2         \* entries in a bucket / flow / registry-client listing
MaxPolls == 3        \* statuses the server-side job reports
MaxComponents == 3   \* positioned components of the layout runs

\* ------------------------------------------------------- program constants
TimeoutMs == 30000   \* timeout=30 (seconds), in milliseconds
SleepMs == 50        \* time.sleep(0.05)
GroupWidth == 380    \* right_x + 380 + 50
GroupGap == 50

\* ---------------------------------------------------------- python values
\* Optional values: None is the empty tuple, a present value a 1-tuple.
None == <<>>
Some(x) == <<x>>

\* Python truthiness of an Optional[str]: None and "" are falsy.
Truthy(o) == o # None /\ o[1] # ""

\* Python str == str: exact, case- and whitespace-sensitive equality.
Fold(s) ==
  CASE s \in {"PG", "pg "} -> "pg"
    [] s \in {"B1", "b1 "} -> "b1"
    [] s \in {"F1", "f1 "} -> "f1"
    [] s \in {"R1", "r1 "} -> "r1"
    [] OTHER -> s
NameEqFold(a, b) == Fold(a) = Fold(b)
NameEq(a, b) == a = b

\* next((e for e in seq if e["name"] == name), None): index of the first
\* element whose name equals `name`, 0 when there is none.
RECURSIVE FirstFrom(_, _, _)
FirstFrom(seq, name, i) ==
  IF i > Len(seq) THEN 0
  ELSE IF NameEq(seq[i].name, name) THEN i
  ELSE FirstFrom(seq, name, i + 1)
FirstMatch(seq, name) == FirstFrom(seq, name, 1)

RECURSIVE SortedSeq(_)
SortedSeq(S) ==
  IF S = {} THEN <<>>
  ELSE LET m == CHOOSE x \in S : \A y \in S : x <= y
       IN <<m>> \o SortedSeq(S \ {m})

\* --------------------------------------------------------------- variables
VARIABLES
  kids,             \* server: group id -> ids of its child groups, in reported order
  pgname,           \* server: group id -> display name
  args,             \* parsed command line: name, version, bucket, flow, registry, parent
  script,           \* server: the statuses the version-change job reports, in order
  insecure,         \* client -> self.insecure
  token,            \* client -> self.token, or None
  invoked,          \* the client method invoked last, or None
  pc,               \* position of the run
  root_id,          \* do_execute: root_id
  curr,             \* traverse_process_groups: the queue curr
  visited,          \* ids the running traversal has yielded, in order
  target_group,     \* do_execute: id of target_group, or None
  fetched,          \* the listing last returned (buckets, flows, registries)
  bucket,           \* do_execute: bucket["identifier"], or None
  flow,             \* do_execute: flow["identifier"], or None
  target_registry,  \* do_execute: target_registry
  parent_pgid,      \* do_execute / import_process_group: parent_pgid
  registry_client,  \* import_process_group: registry_client
  pos_flows,        \* get_suggested_process_group_position: flows
  position,         \* import_process_group: position
  imp_details,      \* import_process_group: details (the create response)
  imported,         \* server: the group this run created, with the name it has
  upd_details,      \* update_process_group: details
  update_request,   \* update_process_group: update_request
  request_status,   \* update_process_group: request_status
  start_time,       \* update_process_group: start_time
  now,              \* the monotonic clock, in milliseconds
  polls,            \* statuses fetched so far
  calls,            \* every API call issued, in order
  out,              \* progress lines printed by update_process_group
  error,            \* the exception that ended the run, or NoError
  result            \* value returned by the branch taken, or None

envVars == <<kids, pgname, args, script, insecure, token, invoked>>
execVars == <<root_id, target_group, bucket, flow, target_registry, parent_pgid>>
travVars == <<curr, visited>>
impVars == <<registry_client, pos_flows, position, imp_details, imported>>
updVars == <<upd_details, update_request, request_status, start_time, now, polls, out>>
vars == <<envVars, pc, execVars, travVars, fetched, impVars, updVars, calls, error, result>>

\* ------------------------------------------------------------------ inputs
RootId == 1
\* get_process_group(pgid="root"): the alias the server resolves to the root group
RootAlias == 0

ParentMaps(n) == {p \in [2..n -> 1..n] : \A i \in 2..n : p[i] < i}
KidsOf(p, n) == [g \in 1..n |-> SortedSeq({i \in 2..n : p[i] = g})]

TargetName == "pg"
TreeNames == {"pg", "PG", "pg ", "x"}
\* Names of the groups of a full run: the target name and two near misses.
GroupNames == {"pg", "PG", "pg "}
ParentName == "PG"

NoError == [exc |-> "none", msg |-> "", status |-> None]

\* The two clients main builds.
Clients == {"nifi", "registry"}

\* The locals and the observations of a run that has not started.
FreshLocals ==
  /\ root_id = None /\ curr = <<>> /\ visited = <<>>
  /\ target_group = None /\ fetched = <<>>
  /\ bucket = None /\ flow = None /\ target_registry = None /\ parent_pgid = None
  /\ registry_client = None /\ position = None /\ imp_details = None
  /\ imported = None
  /\ upd_details = None /\ update_request = None /\ request_status = None
  /\ start_time = 0 /\ now = 0 /\ polls = 0
  /\ calls = <<>> /\ out = <<>> /\ error = NoError /\ result = None

\* do_execute starts with the clients as main leaves them: a client without
\* anonymous access has authenticated (here nifi), so every guard passes.
Fresh ==
  /\ FreshLocals
  /\ insecure = [c \in Clients |-> c = "registry"]
  /\ token = [c \in Clients |-> IF c = "nifi" THEN Some("jwt1") ELSE None]
  /\ invoked = None

\* --------------------------------------------------------- shared helpers
Call(c) == calls' = Append(calls, c)

Raise(exc, msg) == /\ error' = [exc |-> exc, msg |-> msg, status |-> None]
                   /\ pc' = "done"

\* ------------------------------------------- traverse_process_groups (81-88)
\* for pg in current_group[...]["processGroups"]: curr.append(pg["id"])
EnqueueFront(queue, children) == children \o queue
Enqueue(queue, children) == queue \o children

TraverseNextPrefetch(name) ==
  LET pgid == Head(curr)
      found == NameEq(pgname[pgid], name)
  IN /\ curr # <<>>
     /\ calls' = Append(calls, [op |-> "get_process_group", pgid |-> pgid]) \o
                   [i \in 1..Len(kids[pgid]) |->
                      [op |-> "get_process_group", pgid |-> kids[pgid][i]]]
     /\ visited' = Append(visited, pgid)
     /\ curr' = IF found THEN Tail(curr) ELSE Enqueue(Tail(curr), kids[pgid])

\* One iteration of the generator as its consumer drives it: pop the head of
\* curr, fetch it, yield it; a consumer that accepts it (found) abandons the
\* generator, otherwise the children are enqueued.
TraverseNext(name) ==
  LET pgid == Head(curr)
      found == NameEq(pgname[pgid], name)
  IN /\ curr # <<>>
     /\ Call([op |-> "get_process_group", pgid |-> pgid])
     /\ visited' = Append(visited, pgid)
     /\ curr' = IF found THEN Tail(curr) ELSE Enqueue(Tail(curr), kids[pgid])

\* ------------------------------------------------------ do_execute (91-100)
\* root_id = nifi.get_process_group()["processGroupFlow"]["id"]
GetRoot ==
  /\ pc = "start"
  /\ Call([op |-> "get_process_group", pgid |-> RootAlias])
  /\ \/ /\ root_id' = Some(RootId)
        /\ curr' = <<RootId>>
        /\ visited' = <<>>
        /\ pc' = "search"
        /\ UNCHANGED error
     \/ /\ Raise("NifiError", "Get Process Group: ")
        /\ UNCHANGED <<root_id, curr, visited>>
  /\ UNCHANGED <<envVars, target_group, bucket, flow, target_registry, parent_pgid,
                 fetched, impVars, updVars, result>>

SearchTargetNotFoundOnError ==
  /\ pc = "search"
  /\ \/ /\ TraverseNext(args.name)
        /\ IF NameEq(pgname[Head(curr)], args.name)
             THEN target_group' = Some(Head(curr)) /\ pc' = "branch"
             ELSE /\ target_group' = None
                  /\ pc' = IF curr' = <<>> THEN "branch" ELSE "search"
        /\ UNCHANGED error
     \/ /\ curr # <<>>
        /\ Call([op |-> "get_process_group", pgid |-> Head(curr)])
        /\ target_group' = None /\ pc' = "branch"
        /\ UNCHANGED <<curr, visited, error>>
  /\ UNCHANGED <<envVars, root_id, bucket, flow, target_registry, parent_pgid,
                 fetched, impVars, updVars, result>>

\* target_group = next((pg for pg in traverse_process_groups(nifi, root_id)
\*                      if name(pg) == target_pg_name), None)
SearchTarget ==
  /\ pc = "search"
  /\ \/ /\ TraverseNext(args.name)
        /\ IF NameEq(pgname[Head(curr)], args.name)
             THEN target_group' = Some(Head(curr)) /\ pc' = "branch"
             ELSE /\ target_group' = None
                  /\ pc' = IF curr' = <<>> THEN "branch" ELSE "search"
        /\ UNCHANGED error
     \/ /\ curr # <<>>
        /\ Call([op |-> "get_process_group", pgid |-> Head(curr)])
        /\ Raise("NifiError", "Get Process Group: ")
        /\ UNCHANGED <<curr, visited, target_group>>
  /\ UNCHANGED <<envVars, root_id, bucket, flow, target_registry, parent_pgid,
                 fetched, impVars, updVars, result>>

\* --------------------------------------------------- do_execute (101-131)
\* if not args["bucket"] or not args["flow"]
MissingImportArgsNoneOnly(a) == a.bucket = None \/ a.flow = None
MissingImportArgs(a) == ~Truthy(a.bucket) \/ ~Truthy(a.flow)

ImportBranchIfArgs(group, a) == group = None \/ (Truthy(a.bucket) /\ Truthy(a.flow))
\* if not target_group: (the import branch) else: (the upgrade branch)
ImportBranch(group, a) == group = None

Branch ==
  /\ pc = "branch"
  /\ IF ImportBranch(target_group, args)
       THEN IF MissingImportArgs(args)
              THEN Raise("NifiError", "Importing Process Group needs --bucket and --flow defined")
              ELSE pc' = "get_buckets" /\ UNCHANGED error
       ELSE pc' = "upd_details" /\ UNCHANGED error
  /\ UNCHANGED <<envVars, execVars, travVars, fetched, impVars, updVars, calls, result>>

\* A listing: a JSON array of entities, each with an identifier and a name.
Listing(names) == [i \in 1..Len(names) |-> [id |-> i, name |-> names[i]]]
Listings(S) == UNION {{Listing(ns) : ns \in [1..n -> S]} : n \in 0..MaxList}

BucketNames == {"b1", "B1"}
FlowNames == {"f1", "f1 "}
RegistryNames == {"r1", "R1"}

\* buckets = registry.get_buckets(); bucket = next(b for b in buckets if name matches)
GetBuckets ==
  /\ pc = "get_buckets"
  /\ Call([op |-> "get_buckets"])
  /\ \/ /\ Raise("NifiError", "Get Buckets: ")
        /\ UNCHANGED <<fetched, bucket>>
     \/ \E buckets \in Listings(BucketNames) :
          LET i == FirstMatch(buckets, args.bucket[1])
          IN /\ fetched' = buckets
             /\ IF i = 0
                  THEN /\ Raise("NifiError", "Importing Process Group: bucket does not exist")
                       /\ bucket' = None
                  ELSE /\ bucket' = Some(buckets[i].id)
                       /\ pc' = "get_flows"
                       /\ UNCHANGED error
  /\ UNCHANGED <<envVars, root_id, target_group, flow, target_registry, parent_pgid,
                 travVars, impVars, updVars, result>>

\* flows = registry.get_flows(bucket["identifier"]); flow = next(...)
GetFlows ==
  /\ pc = "get_flows"
  /\ Call([op |-> "get_flows", bucket_id |-> bucket[1]])
  /\ \/ /\ Raise("NifiError", "Get Flows: ")
        /\ UNCHANGED <<fetched, flow>>
     \/ \E flows \in Listings(FlowNames) :
          LET i == FirstMatch(flows, args.flow[1])
          IN /\ fetched' = flows
             /\ IF i = 0
                  THEN /\ Raise("NifiError", "Importing Process Group: flow does not exist")
                       /\ flow' = None
                  ELSE /\ flow' = Some(flows[i].id)
                       /\ pc' = "registry"
                       /\ UNCHANGED error
  /\ UNCHANGED <<envVars, root_id, target_group, bucket, target_registry, parent_pgid,
                 travVars, impVars, updVars, result>>

ResolveRegistryAmbiguityFirst ==
  /\ pc = "registry"
  /\ Call([op |-> "get_registry_clients"])
  /\ \/ /\ Raise("NifiError", "Get Registry Clients: ")
        /\ UNCHANGED <<fetched, target_registry>>
     \/ \E registries \in Listings(RegistryNames) :
          LET i == IF Truthy(args.registry)
                     THEN FirstMatch(registries, args.registry[1])
                     ELSE IF Len(registries) = 1 THEN 1 ELSE 0
          IN /\ fetched' = registries
             /\ IF i = 0
                  THEN /\ Raise("NifiError",
                                IF Truthy(args.registry)
                                  THEN "Registry Client does not exist"
                                  ELSE "Import Process Group: must provide registry client if clients are not unique.")
                       /\ target_registry' = None
                  ELSE /\ target_registry' = Some(registries[i].id)
                       /\ pc' = "parent"
                       /\ UNCHANGED error
  /\ UNCHANGED <<envVars, root_id, target_group, bucket, flow, parent_pgid,
                 travVars, impVars, updVars, result>>

\* target_registry = None; if args["registry"]: client = next(...) (115-121)
ResolveRegistry ==
  /\ pc = "registry"
  /\ IF Truthy(args.registry)
       THEN /\ Call([op |-> "get_registry_clients"])
            /\ \/ /\ Raise("NifiError", "Get Registry Clients: ")
                  /\ UNCHANGED <<fetched, target_registry>>
               \/ \E registries \in Listings(RegistryNames) :
                    LET i == FirstMatch(registries, args.registry[1])
                    IN /\ fetched' = registries
                       /\ IF i = 0
                            THEN /\ Raise("NifiError", "Registry Client does not exist")
                                 /\ target_registry' = None
                            ELSE /\ target_registry' = Some(registries[i].id)
                                 /\ pc' = "parent"
                                 /\ UNCHANGED error
       ELSE /\ target_registry' = None
            /\ pc' = "parent"
            /\ UNCHANGED <<calls, error, fetched>>
  /\ UNCHANGED <<envVars, root_id, target_group, bucket, flow, parent_pgid,
                 travVars, impVars, updVars, result>>

\* parent_pgid = None; if args["parent"]: start a fresh traversal (123-126)
ParentStage ==
  /\ pc = "parent"
  /\ IF Truthy(args.parent)
       THEN /\ curr' = <<root_id[1]>>
            /\ visited' = <<>>
            /\ pc' = "search_parent"
       ELSE /\ pc' = "imp_registry"
            /\ UNCHANGED travVars
  /\ parent_pgid' = None
  /\ UNCHANGED <<envVars, root_id, target_group, bucket, flow, target_registry,
                 fetched, impVars, updVars, calls, error, result>>

\* target_parent_group = next((pg for pg in traverse_process_groups(...)
\*                             if name(pg) == args["parent"]), None)   (125-131)
ParentMissingIgnored(target_parent_group) == FALSE
\* if not target_parent_group: raise NifiError(...)
ParentMissing(target_parent_group) == target_parent_group = None

SearchParent ==
  /\ pc = "search_parent"
  /\ \/ /\ TraverseNext(args.parent[1])
        /\ LET found == NameEq(pgname[Head(curr)], args.parent[1])
               target_parent_group == IF found THEN Some(Head(curr)) ELSE None
           IN IF found \/ curr' = <<>>
                THEN IF ParentMissing(target_parent_group)
                       THEN /\ Raise("NifiError", "Parent Processor Group does not exists")
                            /\ parent_pgid' = None
                       ELSE /\ parent_pgid' = target_parent_group
                            /\ pc' = "imp_registry"
                            /\ UNCHANGED error
                ELSE /\ parent_pgid' = None
                     /\ pc' = "search_parent"
                     /\ UNCHANGED error
     \/ /\ curr # <<>>
        /\ Call([op |-> "get_process_group", pgid |-> Head(curr)])
        /\ Raise("NifiError", "Get Process Group: ")
        /\ UNCHANGED <<curr, visited, parent_pgid>>
  /\ UNCHANGED <<envVars, root_id, target_group, bucket, flow, target_registry,
                 fetched, impVars, updVars, result>>

\* ------------- NifiClient.get_suggested_process_group_position (83-100)
\* A flow listing: for each kind of component the positions <<x, y>> of the
\* components of that kind, in reported order.
EmptyFlows == [processGroups |-> <<>>, remoteProcessGroups |-> <<>>, processors |-> <<>>,
               inputPorts |-> <<>>, outputPorts |-> <<>>, connections |-> <<>>,
               labels |-> <<>>, funnels |-> <<>>]

\* components += flows["processGroups"]; ... ; components += flows["funnels"]
Components(flows) ==
  flows.processGroups \o flows.remoteProcessGroups \o flows.processors \o
  flows.inputPorts \o flows.outputPorts \o flows.connections \o
  flows.labels \o flows.funnels

MaxOf(S) == CHOOSE m \in S : \A v \in S : v <= m
MinOf(S) == CHOOSE m \in S : \A v \in S : m <= v

SuggestedPositionBottom(flows) ==
  LET components == Components(flows)
      xs == {components[i][1] : i \in 1..Len(components)}
      ys == {components[i][2] : i \in 1..Len(components)}
  IN IF components = <<>> THEN <<0, 0>>
     ELSE <<MaxOf(xs) + GroupWidth + GroupGap, MaxOf(ys)>>

\* if not components: return 0, 0
\* right_x = max(x); top_y = min(y); return right_x + 380 + 50, top_y
SuggestedPosition(flows) ==
  LET components == Components(flows)
      right_x == MaxOf({components[i][1] : i \in 1..Len(components)})
      top_y == MinOf({components[i][2] : i \in 1..Len(components)})
  IN IF components = <<>> THEN <<0, 0>>
     ELSE <<right_x + GroupWidth + GroupGap, top_y>>

\* The flow listings the server may report for group g in a full run: one
\* child group entry per child of g, and possibly one processor.
GroupFlows(g) ==
  LET groups == [i \in 1..Len(kids[g]) |-> <<10, 5>>]
  IN {[EmptyFlows EXCEPT !.processGroups = groups],
      [EmptyFlows EXCEPT !.processGroups = groups, !.processors = <<<<100, 20>>>>]}

\* ---------------------------------------------- import_process_group (46-78)
UniqueRegistryAny(registries) == Len(registries) >= 1
\* if len(registries) != 1: raise
UniqueRegistry(registries) == Len(registries) = 1

\* if not registry_client: registries = client.get_registry_clients()[...]
ImpRegistry ==
  /\ pc = "imp_registry"
  /\ IF target_registry = None
       THEN /\ Call([op |-> "get_registry_clients"])
            /\ \/ /\ Raise("NifiError", "Get Registry Clients: ")
                  /\ UNCHANGED <<fetched, registry_client>>
               \/ \E registries \in Listings(RegistryNames) :
                    /\ fetched' = registries
                    /\ IF ~UniqueRegistry(registries)
                         THEN /\ Raise("NifiError",
                                       "Import Process Group: must provide registry client if clients are not unique.")
                              /\ registry_client' = None
                         ELSE /\ registry_client' = Some(registries[1].id)
                              /\ pc' = "imp_parent"
                              /\ UNCHANGED error
       ELSE /\ registry_client' = target_registry
            /\ pc' = "imp_parent"
            /\ UNCHANGED <<calls, error, fetched>>
  /\ UNCHANGED <<envVars, execVars, travVars, pos_flows, position, imp_details, imported,
                 updVars, result>>

ImpParentRootOnly ==
  /\ pc = "imp_parent"
  /\ Call([op |-> "get_process_group", pgid |-> RootAlias])
  /\ \/ /\ Raise("NifiError", "Get Process Group: ")
        /\ UNCHANGED parent_pgid
     \/ /\ parent_pgid' = Some(RootId)
        /\ pc' = "imp_position"
        /\ UNCHANGED error
  /\ UNCHANGED <<envVars, root_id, target_group, bucket, flow, target_registry,
                 travVars, fetched, impVars, updVars, result>>

\* if not parent_pgid: parent_pgid = client.get_process_group()[...]["id"]
ImpParent ==
  /\ pc = "imp_parent"
  /\ IF parent_pgid = None
       THEN /\ Call([op |-> "get_process_group", pgid |-> RootAlias])
            /\ \/ /\ Raise("NifiError", "Get Process Group: ")
                  /\ UNCHANGED parent_pgid
               \/ /\ parent_pgid' = Some(RootId)
                  /\ pc' = "imp_position"
                  /\ UNCHANGED error
       ELSE /\ pc' = "imp_position"
            /\ UNCHANGED <<parent_pgid, calls, error>>
  /\ UNCHANGED <<envVars, root_id, target_group, bucket, flow, target_registry,
                 travVars, fetched, impVars, updVars, result>>

\* if not position: position = client.get_suggested_process_group_position(parent_pgid)
ImpPosition ==
  /\ pc = "imp_position"
  /\ IF position = None
       THEN /\ Call([op |-> "get_suggested_process_group_position", pgid |-> parent_pgid[1]])
            /\ \/ /\ Raise("NifiError", "Get Suggested Group Position: ")
                  /\ UNCHANGED <<pos_flows, position>>
               \/ \E flows \in GroupFlows(parent_pgid[1]) :
                    /\ pos_flows' = Some(flows)
                    /\ position' = Some(SuggestedPosition(flows))
                    /\ pc' = "imp_create"
                    /\ UNCHANGED error
       ELSE /\ pc' = "imp_create"
            /\ UNCHANGED <<pos_flows, position, calls, error>>
  /\ UNCHANGED <<envVars, execVars, travVars, fetched, registry_client, imp_details, imported,
                 updVars, result>>

\* "revision": {"version": 0} of the create request (nifi_client.py 138-140)
InitialRevision == [version |-> 0]
\* The revisions the server may stamp on a newly created group.
CreatedRevisions == {[version |-> 1], [version |-> 2]}
\* The id the server assigns to a new group: none of the existing ones.
NewGroupId == Cardinality(DOMAIN kids) + 1

\* details = client.create_process_group(...)   (65-73)
ImpCreate ==
  /\ pc = "imp_create"
  /\ Call([op |-> "create_process_group", parent_pgid |-> parent_pgid[1],
           registry_id |-> registry_client[1], bucket_id |-> bucket[1],
           flow_id |-> flow[1], version |-> args.version,
           pos |-> position[1], revision |-> InitialRevision])
  /\ \/ /\ Raise("NifiError", "Create Process Group: ")
        /\ UNCHANGED <<imp_details, imported>>
     \/ \E rev \in CreatedRevisions :
          /\ imp_details' = Some([id |-> NewGroupId, revision |-> rev])
          /\ imported' = Some([id |-> NewGroupId, name |-> None])
          /\ pc' = "imp_rename"
          /\ UNCHANGED error
  /\ UNCHANGED <<envVars, execVars, travVars, fetched, registry_client, pos_flows,
                 position, updVars, result>>

RenameRevisionInitial(details) == InitialRevision
\* the revision passed to change_process_group_name: details["revision"]
RenameRevision(details) == details.revision

ImpRenameCompensated ==
  /\ pc = "imp_rename"
  /\ \/ /\ calls' = calls \o
             <<[op |-> "change_process_group_name", pgid |-> imp_details[1].id,
                name |-> args.name, revision |-> RenameRevision(imp_details[1])],
               [op |-> "delete_process_group", pgid |-> imp_details[1].id,
                revision |-> RenameRevision(imp_details[1])]>>
        /\ Raise("NifiError", "Change Process Group Name: ")
        /\ imported' = None
        /\ UNCHANGED result
     \/ /\ Call([op |-> "change_process_group_name", pgid |-> imp_details[1].id,
                 name |-> args.name, revision |-> RenameRevision(imp_details[1])])
        /\ result' = Some(imp_details[1].id)
        /\ imported' = Some([id |-> imp_details[1].id, name |-> Some(args.name)])
        /\ pc' = "done"
        /\ UNCHANGED error
  /\ UNCHANGED <<envVars, execVars, travVars, fetched, registry_client, pos_flows,
                 position, imp_details, updVars>>

\* updated = client.change_process_group_name(details["id"], name, details["revision"])
ImpRename ==
  /\ pc = "imp_rename"
  /\ Call([op |-> "change_process_group_name", pgid |-> imp_details[1].id,
           name |-> args.name, revision |-> RenameRevision(imp_details[1])])
  /\ \/ /\ Raise("NifiError", "Change Process Group Name: ")
        /\ UNCHANGED <<result, imported>>
     \/ /\ result' = Some(imp_details[1].id)
        /\ imported' = Some([id |-> imp_details[1].id, name |-> Some(args.name)])
        /\ pc' = "done"
        /\ UNCHANGED error
  /\ UNCHANGED <<envVars, execVars, travVars, fetched, registry_client, pos_flows,
                 position, imp_details, updVars>>

\* ---------------------------------------------- update_process_group (10-38)
\* A status as get_update_request_status returns it: a JSON object (a dict).
Incomplete(p) == [type |-> "dict", complete |-> FALSE, percentCompleted |-> p]
Completed == [type |-> "dict", complete |-> TRUE, percentCompleted |-> 100]
StatusValues == {Incomplete(10), Incomplete(55), Completed}

\* A progress line: "Upgrade Progress: Starting", "... {progress}%", "... Done".
Line(kind, pct) == [kind |-> kind, pct |-> pct]

\* What time.monotonic() may have advanced by since the clock was last read.
ClockSteps == {0, 29950, 30001}

\* The version-control binding and revision the server reports for a group:
\* a group not under version control has no binding.
Binding == [registryId |-> 1, bucketId |-> 1, flowId |-> 1, version |-> 1]
GroupRevision == [version |-> 3]
OtherBinding == [registryId |-> 1, bucketId |-> 2, flowId |-> 2, version |-> 1]
OtherRevision == [version |-> 4]
DetailsOf(pgid) ==
  {[id |-> pgid, revision |-> GroupRevision, versionControlInformation |-> vci] :
     vci \in {None, Some(Binding)}}
  \cup {[id |-> pgid, revision |-> OtherRevision,
         versionControlInformation |-> Some(OtherBinding)]}

\* details = client.get_process_group_details(pgid); print(... ["version"] ...)
UpdDetails ==
  /\ pc = "upd_details"
  /\ Call([op |-> "get_process_group_details", pgid |-> target_group[1]])
  /\ \/ /\ Raise("NifiError", "Get Process Group: ")
        /\ UNCHANGED upd_details
     \/ \E details \in DetailsOf(target_group[1]) :
          /\ upd_details' = Some(details)
          /\ IF details.versionControlInformation = None
               THEN Raise("KeyError", "versionControlInformation")
               ELSE pc' = "upd_request" /\ UNCHANGED error
  /\ UNCHANGED <<envVars, execVars, travVars, fetched, impVars, update_request,
                 request_status, start_time, now, polls, out, result>>

\* revision_info = details["revision"]
RevisionInfo(details) == details.revision

\* current_version = details[...]["versionControlInformation"]
\* current_version["version"] = version
VersionInfoRebuilt(details, version) == [Binding EXCEPT !.version = version]
VersionInfo(details, version) ==
  [details.versionControlInformation[1] EXCEPT !.version = version]

\* The ids the server may give to a version-change request.
RequestIds == {1, 2}

\* current_version["version"] = version
\* update_request = client.create_version_change_request(pgid, revision, current_version)
UpdRequest ==
  /\ pc = "upd_request"
  /\ Call([op |-> "create_version_change_request", pgid |-> target_group[1],
           revision |-> RevisionInfo(upd_details[1]),
           version_info |-> VersionInfo(upd_details[1], args.version)])
  /\ \/ /\ Raise("NifiError", "Change Version: ")
        /\ UNCHANGED update_request
     \/ \E id \in RequestIds :
          /\ update_request' = Some([requestId |-> id])
          /\ pc' = "upd_first"
          /\ UNCHANGED error
  /\ UNCHANGED <<envVars, execVars, travVars, fetched, impVars, upd_details,
                 request_status, start_time, now, polls, out, result>>

\* client.get_update_request_status(update_request["request"]["requestId"]):
\* the next status of the job, or a remote error.
FetchStatus ==
  /\ polls < Len(script)
  /\ Call([op |-> "get_update_request_status", request_id |-> update_request[1].requestId])
  /\ polls' = polls + 1
  /\ \/ /\ Raise("NifiError", "Get Update Request Status: ")
        /\ UNCHANGED request_status
     \/ /\ request_status' = Some(script[polls + 1])
        /\ pc' = "upd_loop"
        /\ UNCHANGED error

\* start_time = time.monotonic(); print("Starting"); request_status = ...  (21-23)
UpdFirstFetch ==
  /\ pc = "upd_first"
  /\ \E d \in ClockSteps : now' = now + d
  /\ start_time' = now'
  /\ out' = Append(out, Line("Starting", 0))
  /\ FetchStatus
  /\ UNCHANGED <<envVars, execVars, travVars, fetched, impVars, upd_details,
                 update_request, result>>

TimedOutReversed(current_time, start, timeout) == start - current_time > timeout
TimedOutAtLimit(current_time, start, timeout) == current_time - start >= timeout
\* if current_time - start_time > timeout: break
TimedOut(current_time, start, timeout) == current_time - start > timeout

\* while not complete: print progress; current_time = monotonic(); break?  (25-30)
UpdLoop ==
  /\ pc = "upd_loop"
  /\ IF request_status[1].complete
       THEN /\ pc' = "upd_after"
            /\ UNCHANGED <<now, out>>
       ELSE /\ out' = Append(out, Line("Progress", request_status[1].percentCompleted))
            /\ \E d \in ClockSteps : now' = now + d
            /\ pc' = IF TimedOut(now', start_time, TimeoutMs) THEN "upd_after" ELSE "upd_sleep"
  /\ UNCHANGED <<envVars, execVars, travVars, fetched, impVars, upd_details,
                 update_request, request_status, start_time, polls, calls, error, result>>

UpdSleepFetchResubmit ==
  /\ pc = "upd_sleep"
  /\ now' = now + SleepMs
  /\ polls < Len(script)
  /\ calls' = calls \o
       <<[op |-> "create_version_change_request", pgid |-> target_group[1],
          revision |-> RevisionInfo(upd_details[1]),
          version_info |-> VersionInfo(upd_details[1], args.version)],
         [op |-> "get_update_request_status", request_id |-> update_request[1].requestId]>>
  /\ polls' = polls + 1
  /\ request_status' = Some(script[polls + 1])
  /\ pc' = "upd_loop"
  /\ UNCHANGED <<envVars, execVars, travVars, fetched, impVars, upd_details,
                 update_request, start_time, out, error, result>>

\* time.sleep(0.05); request_status = client.get_update_request_status(...)  (31-32)
UpdSleepFetch ==
  /\ pc = "upd_sleep"
  /\ now' = now + SleepMs
  /\ FetchStatus
  /\ UNCHANGED <<envVars, execVars, travVars, fetched, impVars, upd_details,
                 update_request, start_time, out, result>>

\* "Change Version: Upgrade timed out " + request_status: str + str concatenates,
\* str + any other type raises TypeError before NifiError is constructed.
TimedOutError(status) ==
  IF status.type = "str"
    THEN [exc |-> "NifiError", msg |-> "Change Version: Upgrade timed out ",
          status |-> Some(status)]
    ELSE [exc |-> "TypeError", msg |-> "can only concatenate str (not dict) to str",
          status |-> None]

UpdFinishFresh ==
  LET status == IF ~request_status[1].complete /\ polls < Len(script)
                  THEN script[polls + 1]
                  ELSE request_status[1]
  IN /\ pc = "upd_after"
     /\ IF ~status.complete
          THEN /\ error' = TimedOutError(status)
               /\ UNCHANGED <<out, result>>
          ELSE /\ out' = Append(out, Line("Done", 0))
               /\ result' = Some(target_group[1])
               /\ UNCHANGED error
     /\ pc' = "done"
     /\ UNCHANGED <<envVars, execVars, travVars, fetched, impVars, upd_details,
                    update_request, request_status, start_time, now, polls, calls>>

\* if not complete: raise NifiError(... + request_status); print("Done"); return pgid
UpdFinish ==
  /\ pc = "upd_after"
  /\ IF ~request_status[1].complete
       THEN /\ error' = TimedOutError(request_status[1])
            /\ UNCHANGED <<out, result>>
       ELSE /\ out' = Append(out, Line("Done", 0))
            /\ result' = Some(target_group[1])
            /\ UNCHANGED error
  /\ pc' = "done"
  /\ UNCHANGED <<envVars, execVars, travVars, fetched, impVars, upd_details,
                 update_request, request_status, start_time, now, polls, calls>>

\* ---------------------------------------------------------------- full runs
OptionalArg(s) == {None, Some(""), Some(s)}

ArgSets ==
  [name : {TargetName}, version : {2},
   bucket : OptionalArg("b1"), flow : OptionalArg("f1"),
   registry : OptionalArg("r1"), parent : OptionalArg(ParentName)]

FullScripts == {<<Incomplete(10), Completed>>}

Init ==
  /\ \E n \in 1..MaxGroups : \E p \in ParentMaps(n) :
        /\ kids = KidsOf(p, n)
        /\ pgname \in [1..n -> GroupNames]
  /\ args \in ArgSets
  /\ script \in FullScripts
  /\ pc = "start" /\ pos_flows = None
  /\ Fresh

Next ==
  \/ GetRoot \/ SearchTarget \/ Branch
  \/ GetBuckets \/ GetFlows \/ ResolveRegistry \/ ParentStage \/ SearchParent
  \/ ImpRegistry \/ ImpParent \/ ImpPosition \/ ImpCreate \/ ImpRename
  \/ UpdDetails \/ UpdRequest \/ UpdFirstFetch \/ UpdLoop \/ UpdSleepFetch \/ UpdFinish

Spec == Init /\ [][Next]_vars

\* ------------------------------------------------------------ upgrade runs
Scripts == UNION {[1..k -> StatusValues] : k \in 0..MaxPolls}

InitUpd ==
  /\ kids = KidsOf(<<>>, 1)
  /\ pgname = [g \in {RootId} |-> TargetName]
  /\ args = [name |-> TargetName, version |-> 2, bucket |-> None, flow |-> None,
             registry |-> None, parent |-> None]
  /\ script \in Scripts
  /\ pc = "start" /\ pos_flows = None
  /\ Fresh

NextUpd ==
  \/ GetRoot \/ SearchTarget \/ Branch
  \/ UpdDetails \/ UpdRequest \/ UpdFirstFetch \/ UpdLoop \/ UpdSleepFetch \/ UpdFinish

SpecUpd == InitUpd /\ [][NextUpd]_vars

\* ----------------------------------------------------- long-running upgrades
\* The most statuses one call can fetch: the sleep adds SleepMs between two
\* readings of the clock, so the reading after TimeoutMs \div SleepMs + 1
\* sleeps is above the timeout.
PollCap == TimeoutMs \div SleepMs + 2

\* A job that reports PollCap statuses, the c-th one complete (none for c = 0).
LongScript(c) == [i \in 1..PollCap |-> IF i = c THEN Completed ELSE Incomplete(10)]
LongScripts == {LongScript(c) : c \in {0, 2}}

InitLive ==
  /\ kids = KidsOf(<<>>, 1)
  /\ pgname = [g \in {RootId} |-> TargetName]
  /\ args = [name |-> TargetName, version |-> 2, bucket |-> None, flow |-> None,
             registry |-> None, parent |-> None]
  /\ script \in LongScripts
  /\ pc = "start" /\ pos_flows = None
  /\ Fresh

\* The program is sequential and every call returns: a step that can be
\* taken is taken.
SpecLive == InitLive /\ [][NextUpd]_vars /\ WF_vars(NextUpd)

\* ------------------------------------------------------------- layout runs
Positions == {<<10, 5>>, <<100, 20>>, <<50, 2>>, <<-40, -7>>}
KindCount == 8

\* The positions ps[i] whose kind ks[i] is k, in order.
OfKind(ks, ps, k) ==
  LET idx == SortedSeq({i \in DOMAIN ks : ks[i] = k})
  IN [j \in 1..Len(idx) |-> ps[idx[j]]]

FlowsFrom(ks, ps) ==
  [processGroups |-> OfKind(ks, ps, 1), remoteProcessGroups |-> OfKind(ks, ps, 2),
   processors |-> OfKind(ks, ps, 3), inputPorts |-> OfKind(ks, ps, 4),
   outputPorts |-> OfKind(ks, ps, 5), connections |-> OfKind(ks, ps, 6),
   labels |-> OfKind(ks, ps, 7), funnels |-> OfKind(ks, ps, 8)]

InitPos ==
  /\ kids = KidsOf(<<>>, 1)
  /\ pgname = [g \in {RootId} |-> TargetName]
  /\ args = [name |-> TargetName, version |-> 2, bucket |-> None, flow |-> None,
             registry |-> None, parent |-> None]
  /\ script = <<>>
  /\ pc = "layout"
  /\ \E n \in 0..MaxComponents :
       \E ks \in {f \in [1..n -> 1..KindCount] : \A i \in 1..n, j \in 1..n : i < j => f[i] <= f[j]} :
         \E ps \in [1..n -> Positions] :
           pos_flows = Some(FlowsFrom(ks, ps))
  /\ Fresh

\* The computation of get_suggested_process_group_position on a fetched listing.
SuggestPosition ==
  /\ pc = "layout"
  /\ position' = Some(SuggestedPosition(pos_flows[1]))
  /\ pc' = "done"
  /\ UNCHANGED <<envVars, execVars, travVars, fetched, registry_client, pos_flows,
                 imp_details, imported, updVars, calls, error, result>>

NextPos == SuggestPosition

SpecPos == InitPos /\ [][NextPos]_vars

\* -------------------------------------------------------- tree-search runs
InitTree ==
  /\ \E n \in 1..MaxNodes : \E p \in ParentMaps(n) :
        /\ kids = KidsOf(p, n)
        /\ pgname \in [1..n -> TreeNames]
  /\ args = [name |-> TargetName, version |-> 2, bucket |-> None, flow |-> None,
             registry |-> None, parent |-> None]
  /\ script = <<>>
  /\ pc = "start" /\ pos_flows = None
  /\ Fresh

NextTree == GetRoot \/ SearchTarget

SpecTree == InitTree /\ [][NextTree]_vars

\* ------------------------------------------------------------ client objects
\* Any sequence of method invocations on the two clients, from construction.
MaxCalls == 3

\* response.text of a successful token request.
TokenTexts == {"", "jwt1", "jwt2"}

RequiresAuthInverted(c) == insecure[c] /\ ~Truthy(token[c])
\* require_auth: if not self.insecure and not self.token: raise NifiError(...)
RequiresAuth(c) == ~insecure[c] /\ ~Truthy(token[c])

\* get_auth_headers: {} if insecure, else the bearer token
AuthHeaders(c) == IF insecure[c] THEN None ELSE token[c]

\* The guarded methods of each client (one stands for all of them).
GuardedOps(c) == IF c = "nifi" THEN {"get_process_group"} ELSE {"get_buckets"}
RemoteError(op) == IF op = "get_process_group" THEN "Get Process Group: " ELSE "Get Buckets: "
RequiresAuthError ==
  [exc |-> "NifiError", msg |-> "requires authentication to use", status |-> None]
AuthenticationError ==
  [exc |-> "NifiError", msg |-> "Authentication: ", status |-> None]

InitAuth ==
  /\ kids = KidsOf(<<>>, 1)
  /\ pgname = [g \in {RootId} |-> TargetName]
  /\ args = [name |-> TargetName, version |-> 2, bucket |-> None, flow |-> None,
             registry |-> None, parent |-> None]
  /\ script = <<>>
  /\ pc = "client" /\ pos_flows = None
  /\ FreshLocals
  /\ insecure \in [Clients -> BOOLEAN]
  /\ token = [c \in Clients |-> None]
  /\ invoked = None

\* client.authenticate(username, password)
Authenticate ==
  /\ pc = "client"
  /\ Len(calls) < MaxCalls
  /\ \E c \in Clients :
       /\ invoked' = Some([client |-> c, op |-> "authenticate"])
       /\ Call([op |-> "authenticate", client |-> c, headers |-> None])
       /\ \/ /\ error' = AuthenticationError
             /\ UNCHANGED token
          \/ \E text \in TokenTexts :
               /\ token' = [token EXCEPT ![c] = Some(text)]
               /\ error' = NoError
  /\ UNCHANGED <<kids, pgname, args, script, insecure, pc, execVars, travVars,
                 fetched, impVars, updVars, result>>

\* A method wrapped by require_auth: the guard, then the HTTP request.
GuardedCall ==
  /\ pc = "client"
  /\ \E c \in Clients : \E op \in GuardedOps(c) :
       /\ invoked' = Some([client |-> c, op |-> op])
       /\ IF RequiresAuth(c)
            THEN /\ error' = RequiresAuthError
                 /\ UNCHANGED calls
            ELSE /\ Len(calls) < MaxCalls
                 /\ Call([op |-> op, client |-> c, headers |-> AuthHeaders(c)])
                 /\ \/ error' = NoError
                    \/ error' = [exc |-> "NifiError", msg |-> RemoteError(op), status |-> None]
  /\ UNCHANGED <<kids, pgname, args, script, insecure, token, pc, execVars, travVars,
                 fetched, impVars, updVars, result>>

NextAuth == Authenticate \/ GuardedCall

SpecAuth == InitAuth /\ [][NextAuth]_vars

\* ============================================================== properties
Groups == DOMAIN kids

CallsWith(ops) == {i \in DOMAIN calls : calls[i].op \in ops}
Issued(ops) == CallsWith(ops) # {}

MutatingOps == {"create_process_group", "change_process_group_name",
                "create_version_change_request"}
RegistryOps == {"get_buckets", "get_flows"}
ImportOps == RegistryOps \cup {"get_registry_clients", "create_process_group",
                               "change_process_group_name",
                               "get_suggested_process_group_position"}

ParentOf(g) == CHOOSE p \in Groups : \E i \in DOMAIN kids[p] : kids[p][i] = g
RECURSIVE Depth(_)
Depth(g) == IF g = RootId THEN 0 ELSE 1 + Depth(ParentOf(g))

Named(name) == {g \in Groups : pgname[g] = name}

\* The traversal that just ended yielded `g` last and no group named `name` before it.
FirstYielded(g, name) ==
  /\ visited # <<>>
  /\ visited[Len(visited)] = g
  /\ pgname[g] = name
  /\ \A i \in 1..(Len(visited) - 1) : pgname[visited[i]] # name

\* C1: when a group with the target name exists, the run takes the upgrade
\* branch only: update_process_group is entered once, for the found group and
\* the target version; no registry, registry-client, create or rename call is
\* made whatever bucket/flow/parent/registry are; and no run issues both a
\* create_process_group and a create_version_change_request.
C1_UpgradeBranchOnly ==
  /\ Named(args.name) # {} => ~Issued(ImportOps)
  /\ target_group # None =>
       /\ pgname[target_group[1]] = args.name
       /\ \A i \in CallsWith({"get_process_group_details", "create_version_change_request"}) :
            calls[i].pgid = target_group[1]
       /\ \A i \in CallsWith({"create_version_change_request"}) :
            calls[i].version_info.version = args.version
       /\ Cardinality(CallsWith({"get_process_group_details"})) <= 1
       /\ Cardinality(CallsWith({"create_version_change_request"})) <= 1
       /\ pc \notin {"branch", "upd_details"} =>
            Cardinality(CallsWith({"get_process_group_details"})) = 1
       /\ result # None =>
            /\ result = target_group
            /\ Cardinality(CallsWith({"create_version_change_request"})) = 1
  /\ ~(Issued({"create_process_group"}) /\ Issued({"create_version_change_request"}))

C1_Witness ==
  /\ pc = "done" /\ target_group # None /\ result = target_group
  /\ Truthy(args.bucket) /\ Truthy(args.flow)
  /\ Truthy(args.parent) /\ Truthy(args.registry)

\* C2: when no group has the target name and bucket or flow is missing
\* (None or empty), the run ends in the configuration error and has issued
\* nothing but tree reads: no mutating call, no registry call.
BucketOrFlowMissing ==
  \/ args.bucket = None \/ args.bucket = Some("")
  \/ args.flow = None \/ args.flow = Some("")

NeedsBucketAndFlow == "Importing Process Group needs --bucket and --flow defined"

C2_MissingArgsFailFirst ==
  (/\ Named(args.name) = {}
   /\ BucketOrFlowMissing
   /\ pc \notin {"start", "search", "branch"}
   /\ error.msg # "Get Process Group: ")
  => /\ pc = "done"
     /\ error.exc = "NifiError"
     /\ error.msg = NeedsBucketAndFlow
     /\ \A i \in DOMAIN calls : calls[i].op = "get_process_group"

C2_Witness ==
  /\ pc = "done" /\ error.msg = NeedsBucketAndFlow
  /\ args.bucket = Some("b1") /\ args.flow = Some("")
  /\ Len(calls) = 1 + Cardinality(Groups)

\* C3: the search for the first group named N returns a group named N of
\* minimal depth when one exists; when none exists it returns None after
\* every group has been fetched and yielded exactly once.
C3_BreadthFirstSearch ==
  pc = "branch" =>
    IF Named(args.name) # {}
      THEN /\ target_group # None
           /\ target_group[1] \in Named(args.name)
           /\ \A m \in Named(args.name) : Depth(target_group[1]) <= Depth(m)
      ELSE /\ target_group = None
           /\ Len(visited) = Cardinality(Groups)
           /\ \A g \in Groups :
                /\ Cardinality({i \in DOMAIN visited : visited[i] = g}) = 1
                /\ Cardinality({i \in CallsWith({"get_process_group"}) :
                                  calls[i].pgid = g}) = 1

C3_Witness ==
  /\ pc = "branch" /\ target_group # None
  /\ Depth(target_group[1]) = 1
  /\ \E m \in Named(args.name) : Depth(m) = 2 /\ m < target_group[1]

\* The statuses the driver has fetched so far, in order (every fetch answered).
Fetched == SubSeq(script, 1, polls)
AllFetchesAnswered ==
  /\ error.msg # "Get Update Request Status: "
  /\ request_status = (IF polls = 0 THEN None ELSE Some(script[polls]))
Elapsed == now - start_time
StatusFetches == CallsWith({"get_update_request_status"})

\* The progress lines of k incomplete statuses: Starting, then their percentages.
ProgressLines(k) ==
  <<Line("Starting", 0)>> \o [i \in 1..k |-> Line("Progress", script[i].percentCompleted)]

\* C4: for k >= 0 incomplete statuses followed by a complete one, with the
\* elapsed time never above the timeout, the call succeeds and returns the
\* group id, fetches the status k+1 times and reports the k percentages in
\* order, then Done; while the elapsed time it reads is within the timeout
\* (the timeout itself included) the driver never gives up on an incomplete
\* status.
C4_PollsToCompletion ==
  /\ (/\ pc = "done" /\ polls >= 1 /\ AllFetchesAnswered
      /\ script[polls].complete
      /\ \A i \in 1..(polls - 1) : ~script[i].complete)
     => /\ error = NoError
        /\ result = Some(RootId)
        /\ Cardinality(StatusFetches) = polls
        /\ out = ProgressLines(polls - 1) \o <<Line("Done", 0)>>
  /\ (pc = "upd_after" /\ Elapsed <= TimeoutMs) => request_status[1].complete
  /\ (pc = "upd_sleep") => out = ProgressLines(polls)

C4_Witness ==
  /\ pc = "done" /\ result = Some(RootId) /\ polls = 3
  /\ Fetched = <<Incomplete(10), Incomplete(55), Completed>>
  /\ out = <<Line("Starting", 0), Line("Progress", 10), Line("Progress", 55), Line("Done", 0)>>
  /\ Elapsed = TimeoutMs + SleepMs

\* C5: when every fetched status is incomplete and the elapsed time exceeds
\* the timeout, the call raises NifiError with a message that reports the
\* last observed status, and returns no group id.
C5_TimedOutRaisesNifiError ==
  (/\ pc = "done" /\ polls >= 1 /\ AllFetchesAnswered
   /\ \A i \in 1..polls : ~script[i].complete
   /\ Elapsed > TimeoutMs)
  => /\ error.exc = "NifiError"
     /\ error.status = request_status
     /\ result = None

\* C6: create_process_group precedes change_process_group_name, one of each
\* on the success path, and the rename names the id and carries the revision
\* of the create response, not the revision sent in the create request.
C6_RenameUsesCreatedRevision ==
  /\ Cardinality(CallsWith({"create_process_group"})) <= 1
  /\ Cardinality(CallsWith({"change_process_group_name"})) <= 1
  /\ \A i \in CallsWith({"change_process_group_name"}) :
       /\ \E j \in CallsWith({"create_process_group"}) :
            j < i /\ calls[j].revision = InitialRevision
       /\ imp_details # None
       /\ calls[i].pgid = imp_details[1].id
       /\ calls[i].revision = imp_details[1].revision
       /\ calls[i].revision # InitialRevision
       /\ calls[i].name = args.name
  /\ (result # None /\ target_group = None) =>
       /\ Cardinality(CallsWith({"create_process_group"})) = 1
       /\ Cardinality(CallsWith({"change_process_group_name"})) = 1
       /\ result = Some(imp_details[1].id)

C6_Witness ==
  /\ pc = "done" /\ result # None /\ imp_details # None
  /\ imp_details[1].revision = [version |-> 2]
  /\ calls[Len(calls)].op = "change_process_group_name"

\* C7: the suggested position is (0, 0) for a parent without positioned
\* components of any kind, and otherwise (max x + 430, min y) over the
\* components of all kinds; it depends on the set of positions only.
PositionSet ==
  LET f == pos_flows[1]
  IN UNION {{s[i] : i \in DOMAIN s} :
              s \in {f.processGroups, f.remoteProcessGroups, f.processors, f.inputPorts,
                     f.outputPorts, f.connections, f.labels, f.funnels}}

C7_SuggestedPosition ==
  (pc = "done" /\ position # None) =>
    IF PositionSet = {}
      THEN position[1] = <<0, 0>>
      ELSE /\ \E c \in PositionSet : position[1][1] = c[1] + 430
           /\ \A c \in PositionSet : position[1][1] >= c[1] + 430
           /\ \E c \in PositionSet : position[1][2] = c[2]
           /\ \A c \in PositionSet : position[1][2] <= c[2]

C7_Witness ==
  /\ pc = "done"
  /\ PositionSet = {<<10, 5>>, <<100, 20>>, <<50, 2>>}
  /\ pos_flows[1].funnels # <<>> /\ pos_flows[1].labels # <<>>
  /\ position = Some(<<530, 2>>)

\* The first entry of `listing` named exactly `name` has identifier `id`.
FirstExact(listing, name, id) ==
  \E i \in DOMAIN listing :
    /\ listing[i].name = name /\ listing[i].id = id
    /\ \A j \in 1..(i - 1) : listing[j].name # name
NoExact(listing, name) == \A i \in DOMAIN listing : listing[i].name # name
NearMiss(listing, name) ==
  \E i \in DOMAIN listing : listing[i].name # name /\ Fold(listing[i].name) = Fold(name)

NoSuchRegistry == "Registry Client does not exist"
AmbiguousRegistry ==
  "Import Process Group: must provide registry client if clients are not unique."
NoSuchBucket == "Importing Process Group: bucket does not exist"
NoSuchFlow == "Importing Process Group: flow does not exist"
NoSuchParent == "Parent Processor Group does not exists"

RegistryGiven == args.registry # None /\ args.registry # Some("")
ParentGiven == args.parent # None /\ args.parent # Some("")
ImportStages == {"imp_parent", "imp_position", "imp_create", "imp_rename"}

\* C8: with a registry name, the first connection with exactly that name is
\* used, and the run fails when there is none; without one, the run goes on
\* only when the server lists exactly one connection, whose id is passed to
\* create_process_group, and fails with the ambiguity error, without a
\* create_process_group call, when it lists none or several.
C8_RegistrySelection ==
  /\ (pc = "parent" /\ RegistryGiven) =>
       /\ target_registry # None
       /\ FirstExact(fetched, args.registry[1], target_registry[1])
  /\ (pc = "parent" /\ ~RegistryGiven) =>
       /\ target_registry = None
       /\ ~Issued({"get_registry_clients"})
  /\ error.msg = NoSuchRegistry =>
       /\ pc = "done" /\ error.exc = "NifiError"
       /\ RegistryGiven /\ NoExact(fetched, args.registry[1])
       /\ ~Issued({"create_process_group"})
  /\ (pc \in ImportStages /\ RegistryGiven) =>
       /\ registry_client = target_registry
       /\ FirstExact(fetched, args.registry[1], registry_client[1])
  /\ (pc \in ImportStages /\ ~RegistryGiven) =>
       /\ Len(fetched) = 1
       /\ registry_client = Some(fetched[1].id)
  /\ error.msg = AmbiguousRegistry =>
       /\ pc = "done" /\ error.exc = "NifiError"
       /\ ~RegistryGiven /\ Len(fetched) # 1
       /\ ~Issued({"create_process_group"})
  /\ \A i \in CallsWith({"create_process_group"}) :
       /\ calls[i].registry_id = registry_client[1]
       /\ IF RegistryGiven
            THEN FirstExact(fetched, args.registry[1], calls[i].registry_id)
            ELSE Len(fetched) = 1 /\ calls[i].registry_id = fetched[1].id
  /\ Cardinality(CallsWith({"get_registry_clients"})) <= 1

C8_Witness ==
  /\ pc = "done" /\ error.msg = AmbiguousRegistry
  /\ Len(fetched) = 2 /\ args.registry = Some("")

\* C9: each name resolution (target group, bucket, flow, registry connection,
\* parent group) selects the first element, in reported / traversal order,
\* whose name equals the requested name exactly; a name differing in case
\* or whitespace is not a match and leaves the name not found.
C9_ExactFirstMatch ==
  /\ pc = "branch" =>
       IF target_group # None
         THEN FirstYielded(target_group[1], args.name)
         ELSE Named(args.name) = {}
  /\ pc = "get_flows" => FirstExact(fetched, args.bucket[1], bucket[1])
  /\ error.msg = NoSuchBucket => NoExact(fetched, args.bucket[1])
  /\ pc = "registry" => FirstExact(fetched, args.flow[1], flow[1])
  /\ error.msg = NoSuchFlow => NoExact(fetched, args.flow[1])
  /\ (pc = "parent" /\ RegistryGiven) =>
       FirstExact(fetched, args.registry[1], target_registry[1])
  /\ error.msg = NoSuchRegistry => NoExact(fetched, args.registry[1])
  /\ (pc = "imp_registry" /\ ParentGiven) =>
       /\ parent_pgid # None
       /\ FirstYielded(parent_pgid[1], args.parent[1])
  /\ error.msg = NoSuchParent => Named(args.parent[1]) = {}

C9_Witness ==
  /\ pc = "done" /\ error.msg = NoSuchParent
  /\ \E g \in Groups : pgname[g] # args.parent[1] /\ Fold(pgname[g]) = Fold(args.parent[1])
  /\ RegistryGiven /\ NearMiss(fetched, args.registry[1])
  /\ \E g \in Groups : pgname[g] # args.name /\ Fold(pgname[g]) = Fold(args.name)

\* C10: a run that ends in a configuration error (missing bucket/flow,
\* ambiguous registry selection) or a resolution error (bucket, flow, registry
\* connection or parent group not found) has issued no mutating call; and a
\* named parent that no group carries, or an ambiguous registry listing,
\* never lets create_process_group be called.
ConfigurationErrors == {NeedsBucketAndFlow, AmbiguousRegistry}
ResolutionErrors == {NoSuchBucket, NoSuchFlow, NoSuchRegistry, NoSuchParent}

C10_NoMutationBeforeError ==
  /\ error.msg \in ConfigurationErrors \cup ResolutionErrors =>
       /\ pc = "done" /\ error.exc = "NifiError" /\ result = None
       /\ ~Issued(MutatingOps)
  /\ (ParentGiven /\ Named(args.parent[1]) = {}) => ~Issued({"create_process_group"})
  /\ (Named(args.name) = {} /\ BucketOrFlowMissing) => ~Issued(MutatingOps)

C10_Witness ==
  /\ pc = "done" /\ error.msg = AmbiguousRegistry
  /\ parent_pgid # None /\ bucket # None /\ flow # None
  /\ Cardinality(CallsWith({"get_process_group"})) >= 3

\* The failure of the exit at action.py:34-35: the run ended there on an
\* incomplete status, without a result.
TimedOutExit ==
  /\ pc = "done" /\ result = None
  /\ request_status # None /\ ~request_status[1].complete
  /\ error = TimedOutError(request_status[1])
EndedInFinish == pc = "done" /\ polls >= 1 /\ AllFetchesAnswered

\* C11: the outcome of update_process_group is decided by the last status it
\* fetched alone: success exactly when that status is complete, whatever the
\* elapsed time at which it was fetched; and once the loop has been left on
\* an incomplete status (elapsed > timeout) no further status is fetched and
\* the call ends TimedOut, whatever a fresh read would report.
C11_LastStatusDecides ==
  /\ [](EndedInFinish =>
          /\ (result # None) <=> script[polls].complete
          /\ script[polls].complete => (error = NoError /\ result = target_group)
          /\ ~script[polls].complete => (TimedOutExit /\ Elapsed > TimeoutMs))
  /\ [][(pc = "upd_after" /\ ~request_status[1].complete) =>
          (calls' = calls /\ polls' = polls /\ request_status' = request_status
           /\ TimedOutExit')]_vars

C11_Witness ==
  /\ TimedOutExit /\ polls < Len(script) /\ script[polls + 1].complete
  /\ Elapsed > TimeoutMs

\* A success on a status fetched after the timeout had already passed.
C11_LateSuccess ==
  /\ pc = "done" /\ result # None /\ polls >= 2
  /\ Elapsed - SleepMs <= TimeoutMs /\ Elapsed > TimeoutMs

\* C12: the polling loop terminates: whatever the job reports, a job that
\* never completes included, a call that has started polling reaches the
\* end of update_process_group (Complete, TimedOut, or a failed read); it
\* polls again only after reading an elapsed time within the timeout, and
\* leaves the loop at the first reading above it.
C12_PollingTerminates ==
  /\ (pc = "upd_first") ~> (pc = "done")
  /\ [](pc = "done" /\ polls >= 1 /\ AllFetchesAnswered =>
          \/ (error = NoError /\ result = target_group /\ script[polls].complete)
          \/ TimedOutExit)
  /\ [](pc = "upd_sleep" => (Elapsed <= TimeoutMs /\ polls < Len(script)))
  /\ [][(pc = "upd_loop" /\ ~request_status[1].complete /\ now' - start_time > TimeoutMs)
          => pc' = "upd_after"]_vars

C12_Witness ==
  /\ TimedOutExit /\ polls = PollCap
  /\ \A i \in 1..PollCap : ~script[i].complete

Submissions == CallsWith({"create_version_change_request"})

\* C13: a call of update_process_group submits the change-version request
\* once, before the first status fetch, and never again, however many polls
\* follow and however the call ends; every status fetch names the request id
\* that submission returned.
C13_SubmitsOnce ==
  /\ Cardinality(Submissions) <= 1
  /\ pc \in {"upd_first", "upd_loop", "upd_sleep", "upd_after"} => Cardinality(Submissions) = 1
  /\ \A i \in StatusFetches :
       /\ \E j \in Submissions : j < i
       /\ update_request # None
       /\ calls[i].request_id = update_request[1].requestId
  /\ Cardinality(StatusFetches) = polls
  /\ (Cardinality(Submissions) = 1 /\ update_request = None) =>
       (pc = "done" /\ error.msg = "Change Version: " /\ polls = 0)

C13_Witness ==
  /\ TimedOutExit /\ polls = 3
  /\ Cardinality(Submissions) = 1
  /\ update_request = Some([requestId |-> 2])

\* C14: the change-version request carries the revision that the
\* get_process_group_details read of the same call returned, that read is the
\* call right before the submission (no mutating call in between), and the
\* binding sent equals the binding read in every field except version, which
\* is the target version.
C14_ChangeRequestFrame ==
  \A i \in Submissions :
    /\ upd_details # None /\ upd_details[1].versionControlInformation # None
    /\ calls[i].pgid = target_group[1]
    /\ calls[i].revision = upd_details[1].revision
    /\ calls[i].version_info.registryId = upd_details[1].versionControlInformation[1].registryId
    /\ calls[i].version_info.bucketId = upd_details[1].versionControlInformation[1].bucketId
    /\ calls[i].version_info.flowId = upd_details[1].versionControlInformation[1].flowId
    /\ calls[i].version_info.version = args.version
    /\ DOMAIN calls[i].version_info = DOMAIN upd_details[1].versionControlInformation[1]
    /\ i > 1
    /\ calls[i - 1].op = "get_process_group_details"
    /\ calls[i - 1].pgid = calls[i].pgid
    /\ \A j \in 1..(i - 1) : calls[j].op \notin MutatingOps

C14_Witness ==
  /\ update_request # None
  /\ upd_details # None
  /\ upd_details[1].revision = OtherRevision
  /\ upd_details[1].versionControlInformation = Some(OtherBinding)
  /\ \E i \in Submissions :
       /\ calls[i].revision = OtherRevision
       /\ calls[i].version_info = [OtherBinding EXCEPT !.version = args.version]
       /\ calls[i].version_info # OtherBinding

\* The groups of the tree in breadth-first order from the root, siblings in
\* reported order.
RECURSIVE BfsFrom(_, _)
BfsFrom(queue, acc) ==
  IF queue = <<>> THEN acc
  ELSE BfsFrom(Tail(queue) \o kids[Head(queue)], Append(acc, Head(queue)))
BfsOrder == BfsFrom(<<RootId>>, <<>>)
FirstNamed(name) ==
  BfsOrder[CHOOSE i \in DOMAIN BfsOrder :
             /\ pgname[BfsOrder[i]] = name
             /\ \A j \in 1..(i - 1) : pgname[BfsOrder[j]] # name]
ResolvedParent == IF ParentGiven THEN FirstNamed(args.parent[1]) ELSE RootId
PositionCalls == CallsWith({"get_suggested_process_group_position"})

\* C15: in the import branch the parent of the new group is the first group
\* named parent_name that a fresh traversal from the root yields (the run
\* fails and imports nothing when there is none), or the root when no parent
\* name is given; the position is computed from the listing of that same
\* parent, and create_process_group gets that parent and that position.
C15_ParentAndPosition ==
  /\ (pc \in ImportStages /\ ParentGiven) =>
       /\ Named(args.parent[1]) # {}
       /\ parent_pgid = Some(FirstNamed(args.parent[1]))
       /\ visited[1] = RootId
       /\ FirstYielded(parent_pgid[1], args.parent[1])
  /\ (pc \in ImportStages \ {"imp_parent"} /\ ~ParentGiven) =>
       /\ parent_pgid = Some(RootId)
       /\ \E i \in CallsWith({"get_process_group"}) :
            /\ calls[i].pgid = RootAlias
            /\ \A j \in CallsWith({"get_registry_clients"} \cup RegistryOps) : j < i
  /\ (ParentGiven /\ Named(args.parent[1]) = {}) =>
       /\ pc \notin ImportStages
       /\ Named(args.name) = {} => result = None
       /\ ~Issued({"create_process_group", "get_suggested_process_group_position"})
  /\ error.msg = NoSuchParent =>
       /\ ParentGiven /\ Named(args.parent[1]) = {}
       /\ pc = "done" /\ error.exc = "NifiError"
  /\ Cardinality(PositionCalls) <= 1
  /\ \A i \in PositionCalls : calls[i].pgid = ResolvedParent
  /\ \A i \in CallsWith({"create_process_group"}) :
       /\ calls[i].parent_pgid = ResolvedParent
       /\ i > 1
       /\ calls[i - 1].op = "get_suggested_process_group_position"
       /\ calls[i - 1].pgid = calls[i].parent_pgid
       /\ pos_flows # None /\ pos_flows[1] \in GroupFlows(calls[i].parent_pgid)
       /\ calls[i].pos = SuggestedPosition(pos_flows[1])

C15_Witness ==
  /\ ParentGiven /\ pgname[RootId] # args.parent[1]
  /\ parent_pgid # None /\ parent_pgid[1] # RootId
  /\ \E i \in CallsWith({"create_process_group"}) :
       /\ calls[i].parent_pgid = parent_pgid[1]
       /\ calls[i].pos # <<0, 0>>
  /\ result # None

CreateFailed == error.msg = "Create Process Group: "
RenameFailed == error.msg = "Change Process Group Name: "
LastCall == calls[Len(calls)]

\* C16: a failing step of import_process_group ends the run at once with its
\* error and nothing is undone: after a failed create no rename is called and
\* the server has no new group; after a failed rename the error is the
\* rename's, the rename is the last call (no delete, no other mutating call),
\* and the created group is still on the server without the desired name.
C16_NoCompensation ==
  /\ error # NoError => (pc = "done" /\ result = None)
  /\ CreateFailed =>
       /\ error.exc = "NifiError"
       /\ LastCall.op = "create_process_group"
       /\ ~Issued({"change_process_group_name"})
       /\ Cardinality(CallsWith(MutatingOps)) = 1
       /\ imp_details = None /\ imported = None
  /\ RenameFailed =>
       /\ error.exc = "NifiError"
       /\ LastCall.op = "change_process_group_name"
       /\ Len(calls) > 1 /\ calls[Len(calls) - 1].op = "create_process_group"
       /\ Cardinality(CallsWith(MutatingOps)) = 2
       /\ imp_details # None
       /\ imported = Some([id |-> imp_details[1].id, name |-> None])
       /\ imported[1].name # Some(args.name)
  /\ \A i \in DOMAIN calls :
       calls[i].op \in MutatingOps \cup
         {"get_process_group", "get_process_group_details", "get_buckets", "get_flows",
          "get_registry_clients", "get_suggested_process_group_position",
          "get_update_request_status"}
  /\ Issued({"change_process_group_name"}) => imp_details # None
  /\ imported # None =>
       (imported[1].name = Some(args.name) <=> result # None)

C16_Witness ==
  /\ pc = "done" /\ RenameFailed
  /\ imported # None /\ imported[1].name = None
  /\ LastCall.op = "change_process_group_name"

\* The run ended with the read error of a group fetch made by a traversal
\* (traversals fetch by id, the two root lookups by the alias).
TraversalFailed ==
  /\ error.msg = "Get Process Group: "
  /\ LastCall.op = "get_process_group"
  /\ LastCall.pgid # RootAlias
UpgradeOps == {"get_process_group_details", "create_version_change_request",
               "get_update_request_status"}

\* C17: a read error on a group fetch of a traversal ends the run with that
\* error: the failed fetch is the last call, the search is not taken as "not
\* found" (no branch is entered after a failed target search: no registry,
\* import or upgrade call; no import after a failed parent search), and no
\* mutating call is ever made.
C17_ReadErrorAborts ==
  /\ [](TraversalFailed =>
          /\ pc = "done" /\ error.exc = "NifiError" /\ result = None
          /\ curr # <<>> /\ LastCall.pgid = Head(curr)
          /\ ~Issued(MutatingOps)
          /\ ~Issued({"get_flows"}) =>
               /\ \A i \in DOMAIN calls : calls[i].op = "get_process_group"
               /\ target_group = None /\ bucket = None /\ flow = None
               /\ upd_details = None
          /\ Issued({"get_flows"}) =>
               /\ ParentGiven /\ parent_pgid = None
               /\ registry_client = None /\ position = None
               /\ ~Issued({"get_suggested_process_group_position"})
               /\ ~Issued(UpgradeOps))
  /\ [][error = NoError /\ pc # "done"]_vars
  /\ [][(pc \in {"search", "search_parent"} /\ visited' = visited) =>
          (TraversalFailed' /\ pc' = "done")]_vars
  /\ [][(pc = "search" /\ error' # NoError) => error'.msg = "Get Process Group: "]_vars
  /\ [][(pc \in {"search", "search_parent"} /\ error'.msg = "Get Process Group: ") =>
          (/\ pc' = "done"
           /\ TraversalFailed'
           /\ Len(calls') = Len(calls) + 1
           /\ UNCHANGED <<target_group, parent_pgid, visited, result>>)]_vars

C17_Witness ==
  /\ TraversalFailed
  /\ visited # <<>>
  /\ ~Issued(RegistryOps)
  /\ Named(args.name) = {}
  /\ ~BucketOrFlowMissing

\* The ids the traversal has fetched, in call order (the root lookup by alias
\* is not part of the traversal).
TraversalFetches ==
  [i \in 1..(Len(calls) - 1) |-> calls[i + 1].pgid]
IndexIn(seq, g) == CHOOSE i \in DOMAIN seq : seq[i] = g
InSeq(seq, g) == \E i \in DOMAIN seq : seq[i] = g
Matched == target_group # None

\* C18: the traversal fetches a group only when it is about to yield it, one
\* get_process_group call per yielded group and in the order of the yields;
\* groups are yielded by non-decreasing depth, siblings in the order their
\* parent listed them; the queue holds exactly the not yet yielded children of
\* the groups the consumer has passed over; the children of a group are
\* enqueued when the consumer asks for the group after it, never for the
\* match; and once the consumer has its match nothing more is fetched.
C18_LazyBreadthFirst ==
  /\ [](pc \in {"search", "branch", "done"} =>
          /\ calls[1].pgid = RootAlias
          /\ \A i \in 2..Len(calls) : calls[i].op = "get_process_group"
          /\ IF TraversalFailed
               THEN TraversalFetches = Append(visited, Head(curr))
               ELSE TraversalFetches = visited
          /\ \A g \in Groups :
               Cardinality({i \in DOMAIN visited : visited[i] = g}) <= 1
          /\ \A i \in DOMAIN visited : \A j \in DOMAIN visited :
               i < j => Depth(visited[i]) <= Depth(visited[j])
          /\ \A p \in Groups : \A a \in DOMAIN kids[p] : \A b \in DOMAIN kids[p] :
               (a < b /\ InSeq(visited, kids[p][b])) =>
                 /\ InSeq(visited, kids[p][a])
                 /\ IndexIn(visited, kids[p][a]) < IndexIn(visited, kids[p][b])
          /\ \A i \in DOMAIN visited :
               visited[i] # RootId =>
                 /\ InSeq(visited, ParentOf(visited[i]))
                 /\ IndexIn(visited, ParentOf(visited[i])) < i
          /\ \A g \in Groups \ {RootId} :
               InSeq(curr, g) <=>
                 /\ ~InSeq(visited, g)
                 /\ InSeq(visited, ParentOf(g))
                 /\ ~(Matched /\ target_group[1] = ParentOf(g))
          /\ Matched =>
               /\ pc = "branch"
               /\ visited[Len(visited)] = target_group[1]
               /\ LastCall.pgid = target_group[1]
               /\ \A i \in DOMAIN kids[target_group[1]] :
                    /\ ~InSeq(TraversalFetches, kids[target_group[1]][i])
                    /\ ~InSeq(curr, kids[target_group[1]][i]))
  /\ [][(pc = "search" /\ Len(visited') > Len(visited)) =>
          /\ Len(calls') = Len(calls) + 1
          /\ visited' = Append(visited, Head(curr))
          /\ curr' = IF pgname[Head(curr)] = args.name
                       THEN Tail(curr)
                       ELSE Tail(curr) \o kids[Head(curr)]]_vars
  /\ [][pc # "branch"]_vars

C18_Witness ==
  /\ pc = "branch" /\ Matched
  /\ Len(visited) >= 2
  /\ kids[target_group[1]] # <<>>
  /\ curr # <<>>
  /\ \E g \in Groups : ~InSeq(visited, g) /\ Depth(g) = Depth(target_group[1])
  /\ Len(calls) = 1 + Len(visited)

AuthCalls(c) == {i \in DOMAIN calls : calls[i].op = "authenticate" /\ calls[i].client = c}

\* C19: on either client, a guarded method invoked while the client is not
\* anonymous and holds no token raises NifiError and sends no HTTP request;
\* a token appears or changes only in a successful authenticate of that
\* client, and a failed authenticate leaves every token as it was.
C19_AuthGuard ==
  /\ [][\A c \in Clients :
          (/\ invoked' # None /\ invoked'[1].client = c
           /\ invoked'[1].op \in GuardedOps(c)
           /\ ~insecure[c] /\ token[c] = None)
          => (calls' = calls /\ error' = RequiresAuthError /\ token' = token)]_vars
  /\ [][\A c \in Clients :
          token'[c] # token[c] =>
            /\ invoked' = Some([client |-> c, op |-> "authenticate"])
            /\ error' = NoError
            /\ token'[c] # None
            /\ calls' = Append(calls, [op |-> "authenticate", client |-> c, headers |-> None])
            /\ \A d \in Clients \ {c} : token'[d] = token[d]]_vars
  /\ [][(invoked' # None /\ invoked'[1].op = "authenticate" /\ error' # NoError)
          => (token' = token /\ error' = AuthenticationError)]_vars
  /\ [](\A c \in Clients : token[c] # None => AuthCalls(c) # {})
  /\ [](\A i \in DOMAIN calls :
          (calls[i].op # "authenticate" /\ ~insecure[calls[i].client]) =>
            /\ Truthy(calls[i].headers)
            /\ \E j \in AuthCalls(calls[i].client) : j < i)
  /\ [][insecure' = insecure]_vars

C19_Witness ==
  /\ invoked = Some([client |-> "registry", op |-> "get_buckets"])
  /\ ~insecure["registry"] /\ token["registry"] = None
  /\ error = RequiresAuthError
  /\ AuthCalls("registry") # {}
  /\ token["nifi"] = Some("jwt2")
  /\ \E i \in DOMAIN calls : calls[i].op = "get_process_group"

\* The position of a stage in do_execute's import branch.
StageRank(p) ==
  CASE p \in {"start", "search", "branch"} -> 0
    [] p = "get_buckets" -> 1
    [] p = "get_flows" -> 2
    [] p = "registry" -> 3
    [] p \in {"parent", "search_parent"} -> 4
    [] p = "imp_registry" -> 5
    [] p \in {"imp_parent", "imp_position", "imp_create", "imp_rename"} -> 6
    [] OTHER -> 7
RegistryListings == CallsWith({"get_registry_clients"})
\* A group fetch made after the flows were listed belongs to the parent search.
ParentSearchStarted ==
  \E i \in CallsWith({"get_process_group"}) : \E j \in CallsWith({"get_flows"}) : j < i
ImportErrors == ConfigurationErrors \cup ResolutionErrors

====
